---------------------------- MODULE Spec2Model ----------------------------
(***************************************************************************)
(* Model of setup-lazarus: src/src/lazarus.ts (version resolver, artifact  *)
(* names, the Lazarus installer driver) and src/src/main.ts (run).         *)
(*                                                                         *)
(* Strings are TLA+ strings; startsWith/endsWith/split are computed on     *)
(* their characters with Len, SubSeq and \o.  Every await of the driver is *)
(* one step of the state machine; the outcome of an external call (exec,   *)
(* tc.downloadTool, Cache.restore, fs.existsSync) is chosen by the         *)
(* environment.                                                            *)
(***************************************************************************)
EXTENDS Naturals, Sequences, FiniteSets, TLC

VARIABLES
    Platform,        \* Lazarus._Platform = os.platform()
    Arch,            \* Lazarus._Arch = os.arch()
    WithCache,       \* constructor argument WithCache
    RUNNER_TEMP,     \* process.env["RUNNER_TEMP"] ("" when undefined)
    requested,       \* constructor argument LazarusVersion (the input)
    LazarusVersion,  \* Lazarus._LazarusVersion
    cacheKey,        \* Lazarus._Cache.key
    cacheRestored,   \* local cacheRestored of _downloadLazarus
    pc,              \* position of run()/installLazarus/_downloadLazarus
    pkg,             \* index in PkgOrder of the artifact being handled
    downloadPath,    \* downloadPath_WIN / downloadPath_LIN / downloadPath_DAR
    downloadName,    \* var downloadName of the darwin branch
    files,           \* which lazbuild paths fs.existsSync reports
    log,             \* external calls issued so far, in order
    addedPath,       \* core.addPath calls, in order
    FPCDIR,          \* core.exportVariable('FPCDIR', ...)
    error,           \* message of the Error in flight ("" when none)
    failed           \* core.setFailed message ("" when not called)

vars == <<Platform, Arch, WithCache, RUNNER_TEMP, requested, LazarusVersion,
          cacheKey, cacheRestored, pc, pkg, downloadPath, downloadName,
          files, log, addedPath, FPCDIR, error, failed>>

---------------------------------------------------------------------------
(* String helpers: String.prototype.startsWith / endsWith / split("-").    *)

startsWith(s, p) == Len(s) >= Len(p) /\ SubSeq(s, 1, Len(p)) = p

endsWith(s, p) ==
    Len(s) >= Len(p) /\ SubSeq(s, Len(s) - Len(p) + 1, Len(s)) = p

CharAt(s, i) == SubSeq(s, i, i)

\* Position of the first "-" of s at or after i, or Len(s) + 1 when none.
RECURSIVE FirstDash(_, _)
FirstDash(s, i) ==
    IF i > Len(s) THEN Len(s) + 1
    ELSE IF CharAt(s, i) = "-" THEN i
    ELSE FirstDash(s, i + 1)

\* s.split("-"): the parts of s between dashes, as a sequence of strings.
RECURSIVE split(_)
split(s) ==
    LET d == FirstDash(s, 1)
    IN  IF d > Len(s) THEN <<s>>
        ELSE <<SubSeq(s, 1, d - 1)>> \o split(SubSeq(s, d + 1, Len(s)))

---------------------------------------------------------------------------
(* Bounded inputs.                                                         *)

\* Length up to which every string over VersionChars is a requested version.
MaxVerLen == 2

VersionChars == {"0", "1", "2", "4", "6", "8", "."}

RECURSIVE StringsUpTo(_)
StringsUpTo(n) ==
    IF n = 0 THEN {""}
    ELSE LET shorter == StringsUpTo(n - 1)
         IN  shorter \cup {s \o c : s \in shorter, c \in VersionChars}

\* Released versions around every rule of the resolver, the two aliases, and
\* strings that are not versions at all.
KnownVersions ==
    {"dist", "stable",
     "4.2", "4.0", "3.8", "3.0", "2.2.6", "2.2.0", "2.0.12", "2.0.10",
     "2.0.8", "2.0.6", "2.0.0", "2.0", "1.8.4", "1.8.0", "1.6.4", "1.6.2",
     "1.6", "1.5", "1.4.4", "1.4.0", "1.2.6", "1.2.0", "1.2", "1.0.14",
     "1.0.12", "1.", "0.9.30", "2.10.0", "2.2.0-RC1", "latest"}

Versions == KnownVersions \cup StringsUpTo(MaxVerLen)

Platforms == {"linux", "win32", "darwin", "freebsd"}

Archs == {"x64", "arm64"}

RunnerTemps == {"", "/home/runner/work/_temp"}

---------------------------------------------------------------------------
(* Version resolver and artifact names.                                    *)

StableVersion == "4.2"

\* findFPCVersion with the "1.6" prefix rule tested before the exact "1.6.4".
findFPCVersionRuleOrderSwapped(ver) ==
    IF startsWith(ver, "2.0.1") THEN "3.2.0"
    ELSE IF startsWith(ver, "2.0.") \/ startsWith(ver, "1.8") THEN "3.0.4"
    ELSE IF startsWith(ver, "1.6") THEN "3.0.0"
    ELSE IF ver = "1.6.4" THEN "3.0.2"
    ELSE IF ver = "1.2.0" \/ startsWith(ver, "1.0") THEN "2.6.2"
    ELSE IF startsWith(ver, "1.4") \/ startsWith(ver, "1.2") THEN "2.6.4"
    ELSE "3.2.2"

\* findFPCVersion(ver): the if-chain, top to bottom.
findFPCVersion(ver) ==
    IF startsWith(ver, "2.0.1") THEN "3.2.0"
    ELSE IF startsWith(ver, "2.0.") \/ startsWith(ver, "1.8") THEN "3.0.4"
    ELSE IF ver = "1.6.4" THEN "3.0.2"
    ELSE IF startsWith(ver, "1.6") THEN "3.0.0"
    ELSE IF ver = "1.2.0" \/ startsWith(ver, "1.0") THEN "2.6.2"
    ELSE IF startsWith(ver, "1.4") \/ startsWith(ver, "1.2") THEN "2.6.4"
    ELSE "3.2.2"

\* fpcverSuffix of createLazarusFileName.
fpcverSuffix(ver, p) ==
    LET fpcver == findFPCVersion(ver)
    IN  IF p = "darwin"
        THEN IF fpcver = "3.2.0" THEN "2"
             ELSE IF fpcver = "3.2.2" THEN "20210709"
             ELSE ""
        ELSE CASE fpcver = "3.2.2" -> "210709"
               [] fpcver = "3.2.0" -> "1"
               [] fpcver = "3.0.4" -> "2"
               [] fpcver = "3.0.2" -> "170225"
               [] fpcver = "3.0.0" -> "151205"
               [] fpcver = "2.6.4" ->
                    IF startsWith(ver, "1.2.") /\ ver # "1.2.0"
                    THEN "140420" ELSE "150228"
               [] fpcver = "2.6.2" -> "0"
               [] OTHER -> ""

\* createLazarusFileName(ver) on platform p and architecture a: a string on
\* Windows, an object {laz, fpc, fpcsrc} elsewhere.
createLazarusFileName(ver, p, a) ==
    LET fpcver == findFPCVersion(ver)
        suffix == fpcverSuffix(ver, p)
    IN  IF startsWith(p, "win")
        THEN "lazarus-" \o ver \o "-fpc-" \o fpcver \o "-"
                \o (IF a = "x64" THEN "win64" ELSE "win32") \o ".exe"
        ELSE IF p = "darwin"
        THEN IF ver # "2.0.8"
             THEN [laz    |-> "Lazarus-" \o ver \o "-macosx-" \o p \o ".pkg",
                   fpc    |-> "fpc-" \o fpcver \o ".intel"
                                \o (IF startsWith(fpcver, "2.0") THEN "" ELSE "arm64")
                                \o "-macosx.dmg",
                   fpcsrc |-> "fpc-src-" \o fpcver \o "-" \o suffix \o "-laz."
                                \o (IF startsWith(ver, "2.0") THEN "pkg" ELSE "dmg")]
             ELSE [laz    |-> "LazarusIDE-2.0.8-macos-x86_64.pkg",
                   fpc    |-> "fpc-3.0.4-macos-x86_64-laz-2.dmg",
                   fpcsrc |-> "fpc-src-3.0.4-laz.pkg"]
        ELSE [laz    |-> "lazarus-project_" \o ver \o "-0_amd64.deb",
              fpc    |-> "fpc" \o (IF ~startsWith(ver, "1.") THEN "_" ELSE "-laz-")
                            \o fpcver \o "-"
                            \o (IF fpcver = "3.0.4" THEN "1" ELSE suffix)
                            \o "_amd64.deb",
              fpcsrc |-> "fpc-src_" \o fpcver \o "-" \o suffix \o "_amd64.deb"]

---------------------------------------------------------------------------
(* Paths, URLs and messages.                                               *)

\* path.sep of the host.
Sep == IF Platform = "win32" THEN "\\" ELSE "/"

\* path.join(a, b) for two non-empty segments.
join(a, b) == a \o Sep \o b

\* Lazarus._getTempDirectory, when RUNNER_TEMP is defined.
getTempDirectory == join(RUNNER_TEMP, "installers")

\* The AssertionError of ok(tempDirectory, ...) in _getTempDirectory.
TempDirError == "Expected RUNNER_TEMP to be defined"

\* Lazarus._getPackageURL(pkg).
getPackageURL(name) ==
    CASE Platform = "win32" ->
            (IF Arch = "x64"
             THEN "https://sourceforge.net/projects/lazarus/files/Lazarus%20Windows%2064%20bits/Lazarus%20"
             ELSE "https://sourceforge.net/projects/lazarus/files/Lazarus%20Windows%2032%20bits/Lazarus%20")
            \o LazarusVersion \o "/"
            \o createLazarusFileName(LazarusVersion, Platform, Arch)
      [] Platform = "linux" ->
            "https://sourceforge.net/projects/lazarus/files/Lazarus%20Linux%20amd64%20DEB/Lazarus%20"
            \o LazarusVersion \o "/"
            \o createLazarusFileName(LazarusVersion, Platform, Arch)[name]
      [] Platform = "darwin" ->
            "https://sourceforge.net/projects/lazarus/files/Lazarus%20macOS%20x86-64/Lazarus%20"
            \o LazarusVersion \o "/"
            \o createLazarusFileName(LazarusVersion, Platform, Arch)[name]
      [] OTHER -> ""

\* The key the constructor and installLazarus give the cache.
CacheKey(ver) == ver \o "-" \o Arch \o "-" \o Platform

DistUnsupportedError == "getLazarus - Platform not supported: " \o Platform

NotImplementedError == "_downloadLazarus - Platform not implemented: " \o Platform

MacosTooOldError == "GitHub runners do not support Lazarus below 2.0.8 on macos"

lazLibPath == "/Library/Lazarus/lazbuild"

lazAppPath == "/Applications/Lazarus/lazbuild"

NoLazbuildError ==
    "Could not find lazbuild in " \o lazLibPath \o " or " \o lazAppPath

\* Messages of the errors the external collaborators raise.
ExecError(cmd) == "The process failed: " \o cmd

DownloadError(url) == "Download failed: " \o url

VolumeError == "ENOENT: no such file or directory, scandir '/Volumes/undefined'"

AptUpdate == "sudo apt update"

AptInstallDist == "sudo apt install -y lazarus --no-install-recommends"

\* The artifact blocks in the reverse order.
PkgOrderIdeFirst == <<"laz", "fpc", "fpcsrc">>

\* The artifacts of the linux and darwin branches, in the order of their blocks.
PkgOrder == <<"fpcsrc", "fpc", "laz">>

\* Local file name stem of each artifact ("fpcsrc.deb", "lazarus.pkg", ...).
Stem(name) == IF name = "laz" THEN "lazarus" ELSE name

---------------------------------------------------------------------------
(* State after `new Lazarus(LazarusVersion, WithCache)`.                   *)

env == <<Platform, Arch, WithCache, RUNNER_TEMP, requested>>

Init ==
    /\ Platform \in Platforms
    /\ Arch \in Archs
    /\ WithCache \in BOOLEAN
    /\ RUNNER_TEMP \in RunnerTemps
    /\ requested \in Versions
    /\ LazarusVersion = requested
    /\ cacheKey = CacheKey(requested)
    /\ cacheRestored = FALSE
    /\ pc = "install"
    /\ pkg = 1
    /\ downloadPath = ""
    /\ downloadName = ""
    /\ files = {"unread"}
    /\ log = <<>>
    /\ addedPath = <<>>
    /\ FPCDIR = ""
    /\ error = ""
    /\ failed = ""

---------------------------------------------------------------------------
(* Control transfer and external calls.                                    *)

\* `throw new Error(msg)`, or a rejected await: nothing catches it before run().
Throw(msg) == pc' = "thrown" /\ error' = msg

Goto(next) == pc' = next /\ error' = error

\* await exec(cmd): resolves when the command exits with code 0, else rejects.
Exec(cmd, ok, next) ==
    /\ log' = Append(log, [op |-> "exec", arg |-> cmd, ok |-> ok])
    /\ IF ok THEN Goto(next) ELSE Throw(ExecError(cmd))

\* downloadPath = await tc.downloadTool(url, dest)
Download(url, dest, ok, next) ==
    /\ log' = Append(log, [op |-> "download", arg |-> url, ok |-> ok])
    /\ IF ok
       THEN downloadPath' = dest /\ Goto(next)
       ELSE downloadPath' = downloadPath /\ Throw(DownloadError(url))

\* What Cache.restore() can return: false when the cache is disabled,
\* otherwise whether an entry for the key was restored.
RestoreOutcomes == IF WithCache THEN BOOLEAN ELSE {FALSE}

\* The restore without its platform guard.
RestoreAttemptedEverywhere == TRUE

\* `if (this._Platform != "win32")` guarding the restore.
RestoreAttempted == Platform # "win32"

\* An artifact block that ignores cacheRestored.
UseCachedNever == FALSE

\* `if (cacheRestored)` of every artifact block.
UseCached == cacheRestored

\* The `if ... else: download` of one artifact block: reuse the expected
\* local file name, or download url into it.
Obtain(url, dest, next) ==
    IF RUNNER_TEMP = ""
    THEN Throw(TempDirError) /\ UNCHANGED <<log, downloadPath>>
    ELSE IF UseCached
         THEN downloadPath' = dest /\ log' = log /\ Goto(next)
         ELSE \E ok \in BOOLEAN : Download(url, dest, ok, next)

---------------------------------------------------------------------------
(* Installer.install() and Lazarus.installLazarus().                       *)

\* Installer.install awaits Lazarus.installLazarus.
InstallerInstall ==
    /\ pc = "install"
    /\ Goto("installLazarus")
    /\ UNCHANGED <<env, LazarusVersion, cacheKey, cacheRestored, pkg,
                   downloadPath, downloadName, files, log, addedPath, FPCDIR,
                   failed>>

\* The inner switch of case "dist" without the apt path of linux.
DistBranchLinuxDownloads ==
    CASE Platform = "linux" -> "_downloadLazarus"
      [] Platform = "win32" -> "stable"
      [] OTHER -> "thrown"

\* The inner switch of case "dist": where each platform goes.
DistBranch ==
    CASE Platform = "linux" -> "distAptUpdate"
      [] Platform = "win32" -> "stable"
      [] OTHER -> "thrown"

\* The version test without its `startsWith("1.")` operand.
DarwinRejectsOnly20(ver) ==
    startsWith(ver, "2.0") /\ ver # "2.0.8"

\* The version test of the default case on darwin.
DarwinRejects(ver) ==
    \/ (startsWith(ver, "2.0") /\ ver # "2.0.8")
    \/ startsWith(ver, "1.")

InstallLazarus ==
    /\ pc = "installLazarus"
    /\ IF LazarusVersion = "dist"
       THEN CASE DistBranch = "stable" ->
                    /\ LazarusVersion' = StableVersion
                    /\ cacheKey' = CacheKey(StableVersion)
                    /\ Goto("_downloadLazarus")
              [] DistBranch = "thrown" ->
                    /\ Throw(DistUnsupportedError)
                    /\ UNCHANGED <<LazarusVersion, cacheKey>>
              [] OTHER ->
                    /\ Goto(DistBranch)
                    /\ UNCHANGED <<LazarusVersion, cacheKey>>
       ELSE IF LazarusVersion = "stable"
       THEN /\ LazarusVersion' = StableVersion
            /\ cacheKey' = CacheKey(StableVersion)
            /\ Goto("_downloadLazarus")
       ELSE /\ IF Platform = "darwin" /\ DarwinRejects(LazarusVersion)
               THEN Throw(MacosTooOldError)
               ELSE Goto("_downloadLazarus")
            /\ UNCHANGED <<LazarusVersion, cacheKey>>
    /\ UNCHANGED <<env, cacheRestored, pkg, downloadPath, downloadName, files,
                   log, addedPath, FPCDIR, failed>>

DistAptUpdate ==
    /\ pc = "distAptUpdate"
    /\ \E ok \in BOOLEAN : Exec(AptUpdate, ok, "distAptInstall")
    /\ UNCHANGED <<env, LazarusVersion, cacheKey, cacheRestored, pkg,
                   downloadPath, downloadName, files, addedPath, FPCDIR,
                   failed>>

DistAptInstall ==
    /\ pc = "distAptInstall"
    /\ \E ok \in BOOLEAN : Exec(AptInstallDist, ok, "returned")
    /\ UNCHANGED <<env, LazarusVersion, cacheKey, cacheRestored, pkg,
                   downloadPath, downloadName, files, addedPath, FPCDIR,
                   failed>>

---------------------------------------------------------------------------
(* Lazarus._downloadLazarus().                                             *)

\* The switch with the linux block as its default.
PlatformBranchDefaultLinux ==
    IF Platform \in {"win32", "darwin"} THEN Platform ELSE "linux"

\* switch (this._Platform) of _downloadLazarus: the block entered, "thrown"
\* for the default case.
PlatformBranch ==
    IF Platform \in {"win32", "linux", "darwin"} THEN Platform ELSE "thrown"

DownloadLazarusRestore ==
    /\ pc = "_downloadLazarus"
    /\ IF RestoreAttempted
       THEN \E hit \in RestoreOutcomes :
                /\ cacheRestored' = hit
                /\ log' = Append(log, [op |-> "restore", arg |-> cacheKey,
                                       ok |-> hit])
       ELSE UNCHANGED <<cacheRestored, log>>
    /\ IF PlatformBranch = "thrown"
       THEN Throw(NotImplementedError)
       ELSE Goto(PlatformBranch)
    /\ UNCHANGED <<env, LazarusVersion, cacheKey, pkg, downloadPath,
                   downloadName, files, addedPath, FPCDIR, failed>>

\* case "win32": obtain the installer.
WinObtain ==
    /\ pc = "win32"
    /\ Obtain(getPackageURL("laz"),
              join(getTempDirectory, "lazarus-" \o LazarusVersion \o ".exe"),
              "winInstaller")
    /\ UNCHANGED <<env, LazarusVersion, cacheKey, cacheRestored, pkg,
                   downloadName, files, addedPath, FPCDIR, failed>>

lazarusDir == join(getTempDirectory, "lazarus")

\* case "win32": run the installer.
WinRunInstaller ==
    /\ pc = "winInstaller"
    /\ \E ok \in BOOLEAN :
           Exec(downloadPath \o " /VERYSILENT /SP- /DIR=" \o lazarusDir, ok,
                "winPostInstall")
    /\ UNCHANGED <<env, LazarusVersion, cacheKey, cacheRestored, pkg,
                   downloadPath, downloadName, files, addedPath, FPCDIR,
                   failed>>

\* parts[3] of the installer file name split at "-".
fpc_version ==
    split(createLazarusFileName(LazarusVersion, Platform, Arch))[4]

fpcDir ==
    join(join(join(join(lazarusDir, "fpc"), fpc_version), "bin"),
         "x86_64-" \o (IF Arch = "x64" THEN "win64" ELSE "win32"))

\* case "win32": register PATH and FPCDIR.
WinPostInstall ==
    /\ pc = "winPostInstall"
    /\ addedPath' = addedPath \o <<lazarusDir, fpcDir>>
    /\ FPCDIR' = join(join(lazarusDir, "fpc"), fpc_version)
    /\ Goto("returned")
    /\ UNCHANGED <<env, LazarusVersion, cacheKey, cacheRestored, pkg,
                   downloadPath, downloadName, files, log, failed>>

\* case "linux": the repository update.
LinuxAptUpdate ==
    /\ pc = "linux"
    /\ \E ok \in BOOLEAN : Exec(AptUpdate, ok, "linuxObtain")
    /\ UNCHANGED <<env, LazarusVersion, cacheKey, cacheRestored, pkg,
                   downloadPath, downloadName, files, addedPath, FPCDIR,
                   failed>>

\* case "linux": obtain the artifact PkgOrder[pkg].
LinuxObtain ==
    /\ pc = "linuxObtain"
    /\ Obtain(getPackageURL(PkgOrder[pkg]),
              join(getTempDirectory, Stem(PkgOrder[pkg]) \o ".deb"),
              "linuxInstall")
    /\ UNCHANGED <<env, LazarusVersion, cacheKey, cacheRestored, pkg,
                   downloadName, files, addedPath, FPCDIR, failed>>

\* case "linux": install the artifact, then go on to the next one.
LinuxInstall ==
    /\ pc = "linuxInstall"
    /\ \E ok \in BOOLEAN :
         /\ Exec("sudo apt install -y " \o downloadPath, ok,
                 IF pkg < Len(PkgOrder) THEN "linuxObtain" ELSE "returned")
         /\ pkg' = IF ok /\ pkg < Len(PkgOrder) THEN pkg + 1 ELSE pkg
    /\ UNCHANGED <<env, LazarusVersion, cacheKey, cacheRestored, downloadPath,
                   downloadName, files, addedPath, FPCDIR, failed>>

\* The local download name of the darwin branch for a URL.
DarwinDownloadName(name) ==
    Stem(name) \o (IF endsWith(getPackageURL(name), ".dmg") THEN ".dmg" ELSE ".pkg")

\* case "darwin": obtain the artifact PkgOrder[pkg].
DarwinObtain ==
    /\ pc = "darwin"
    /\ downloadName' = DarwinDownloadName(PkgOrder[pkg])
    /\ Obtain(getPackageURL(PkgOrder[pkg]),
              join(getTempDirectory, DarwinDownloadName(PkgOrder[pkg])),
              IF DarwinDownloadName(PkgOrder[pkg]) = Stem(PkgOrder[pkg]) \o ".dmg"
              THEN "darwinAttach" ELSE "darwinInstallPkg")
    /\ UNCHANGED <<env, LazarusVersion, cacheKey, cacheRestored, pkg, files,
                   addedPath, FPCDIR, failed>>

\* case "darwin": mount the disk image.
DarwinAttach ==
    /\ pc = "darwinAttach"
    /\ \E ok \in BOOLEAN :
           Exec("sudo hdiutil attach " \o downloadPath, ok, "darwinInstallDmg")
    /\ UNCHANGED <<env, LazarusVersion, cacheKey, cacheRestored, pkg,
                   downloadPath, downloadName, files, addedPath, FPCDIR,
                   failed>>

\* Where the darwin branch goes after an artifact's installer succeeded.
DarwinAfterInstall == IF pkg < Len(PkgOrder) THEN "darwin" ELSE "darwinLazbuild"

\* case "darwin": find the package in the mounted volume and install it.
\* readdirSync throws when no volume with the expected prefix is mounted.
\* The volume and package names come from the disk image; the command is
\* written here with the artifact's stem in their place.
DarwinInstallDmg ==
    /\ pc = "darwinInstallDmg"
    /\ \E mounted, ok \in BOOLEAN :
         IF ~mounted
         THEN Throw(VolumeError) /\ UNCHANGED <<log, pkg>>
         ELSE /\ Exec("sudo installer -package /Volumes/"
                        \o Stem(PkgOrder[pkg]) \o "/" \o Stem(PkgOrder[pkg])
                        \o ".pkg -target /", ok, DarwinAfterInstall)
              /\ pkg' = IF ok /\ pkg < Len(PkgOrder) THEN pkg + 1 ELSE pkg
    /\ UNCHANGED <<env, LazarusVersion, cacheKey, cacheRestored, downloadPath,
                   downloadName, files, addedPath, FPCDIR, failed>>

\* case "darwin": install a downloaded .pkg directly.
DarwinInstallPkg ==
    /\ pc = "darwinInstallPkg"
    /\ \E ok \in BOOLEAN :
         /\ Exec("sudo installer -package " \o downloadPath \o " -target /",
                 ok, DarwinAfterInstall)
         /\ pkg' = IF ok /\ pkg < Len(PkgOrder) THEN pkg + 1 ELSE pkg
    /\ UNCHANGED <<env, LazarusVersion, cacheKey, cacheRestored, downloadPath,
                   downloadName, files, addedPath, FPCDIR, failed>>

RemoveLink == "rm -rf /usr/local/bin/lazbuild"

AddLink == "ln -s " \o lazAppPath \o " /usr/local/bin/lazbuild"

\* The lazbuild check without its final else.
LazbuildDecisionNoThrow(fs) ==
    IF lazLibPath \in fs THEN "keep"
    ELSE IF lazAppPath \in fs THEN "relink"
    ELSE "keep"

\* The if / else-if / else on fs.existsSync of the two lazbuild paths.
LazbuildDecision(fs) ==
    IF lazLibPath \in fs THEN "keep"
    ELSE IF lazAppPath \in fs THEN "relink"
    ELSE "missing"

\* case "darwin": the lazbuild symlink check.
DarwinLazbuild ==
    /\ pc = "darwinLazbuild"
    /\ \E fs \in SUBSET {lazLibPath, lazAppPath} :
         /\ files' = fs
         /\ CASE LazbuildDecision(fs) = "keep" -> Goto("returned")
              [] LazbuildDecision(fs) = "relink" -> Goto("darwinRmLink")
              [] OTHER -> Throw(NoLazbuildError)
    /\ UNCHANGED <<env, LazarusVersion, cacheKey, cacheRestored, pkg,
                   downloadPath, downloadName, log, addedPath, FPCDIR, failed>>

DarwinRmLink ==
    /\ pc = "darwinRmLink"
    /\ \E ok \in BOOLEAN : Exec(RemoveLink, ok, "darwinLnLink")
    /\ UNCHANGED <<env, LazarusVersion, cacheKey, cacheRestored, pkg,
                   downloadPath, downloadName, files, addedPath, FPCDIR,
                   failed>>

DarwinLnLink ==
    /\ pc = "darwinLnLink"
    /\ \E ok \in BOOLEAN : Exec(AddLink, ok, "returned")
    /\ UNCHANGED <<env, LazarusVersion, cacheKey, cacheRestored, pkg,
                   downloadPath, downloadName, files, addedPath, FPCDIR,
                   failed>>

---------------------------------------------------------------------------
(* run() of main.ts.                                                       *)

\* catch (error) without core.setFailed.
RunCatchSilent ==
    /\ pc = "thrown"
    /\ pc' = "exit"
    /\ UNCHANGED <<env, LazarusVersion, cacheKey, cacheRestored, pkg,
                   downloadPath, downloadName, files, log, addedPath, FPCDIR,
                   error, failed>>

\* catch (error) { core.setFailed(error.message) }
RunCatch ==
    /\ pc = "thrown"
    /\ failed' = error
    /\ pc' = "exit"
    /\ UNCHANGED <<env, LazarusVersion, cacheKey, cacheRestored, pkg,
                   downloadPath, downloadName, files, log, addedPath, FPCDIR,
                   error>>

\* Installer.install() resolved: run() ends without a failure.
RunReturn ==
    /\ pc = "returned"
    /\ pc' = "exit"
    /\ UNCHANGED <<env, LazarusVersion, cacheKey, cacheRestored, pkg,
                   downloadPath, downloadName, files, log, addedPath, FPCDIR,
                   error, failed>>

Next ==
    \/ InstallerInstall
    \/ InstallLazarus
    \/ DistAptUpdate
    \/ DistAptInstall
    \/ DownloadLazarusRestore
    \/ WinObtain
    \/ WinRunInstaller
    \/ WinPostInstall
    \/ LinuxAptUpdate
    \/ LinuxObtain
    \/ LinuxInstall
    \/ DarwinObtain
    \/ DarwinAttach
    \/ DarwinInstallDmg
    \/ DarwinInstallPkg
    \/ DarwinLazbuild
    \/ DarwinRmLink
    \/ DarwinLnLink
    \/ RunCatch
    \/ RunReturn

Spec == Init /\ [][Next]_vars

---------------------------------------------------------------------------
(* Vocabulary of the properties.                                           *)

Calls(kind) == {i \in DOMAIN log : log[i].op = kind}

Downloads == Calls("download")

Restores == Calls("restore")

Execs == Calls("exec")

ExecsOf(cmd) == {i \in Execs : log[i].arg = cmd}

Succeeded == pc = "exit" /\ failed = ""

\* The least element of a non-empty set of positions.
Min1(S) == CHOOSE i \in S : \A j \in S : i <= j

\* The run entered _downloadLazarus (every run but "dist" on linux and the
\* ones installLazarus rejects).
RanDownloadSequence ==
    /\ pc \notin {"install", "installLazarus", "distAptUpdate", "distAptInstall"}
    /\ ~(requested = "dist" /\ Platform = "linux")
    /\ error \notin {DistUnsupportedError, MacosTooOldError}

RestoreSucceeded == \E i \in Restores : log[i].ok

RequiredArtifacts ==
    IF Platform = "win32" THEN {"laz"} ELSE {"fpcsrc", "fpc", "laz"}

DownloadsOf(name) == {i \in Downloads : log[i].arg = getPackageURL(name)}

\* C1: a run of the download/install sequence that completes without error
\* issued no download when the cache restore succeeded, and otherwise (restore
\* failed, cache disabled) exactly one download per required artifact.
C1_CacheGate ==
    (Succeeded /\ RanDownloadSequence) =>
        IF RestoreSucceeded
        THEN Downloads = {}
        ELSE /\ \A name \in RequiredArtifacts : Cardinality(DownloadsOf(name)) = 1
             /\ Cardinality(Downloads) = Cardinality(RequiredArtifacts)

C1_Witness ==
    /\ Succeeded
    /\ Platform = "linux"
    /\ requested = "2.2.6"
    /\ RestoreSucceeded
    /\ Cardinality(Execs) = 4

\* C2: for the alias "dist", a linux run issues nothing but 'apt update'
\* followed by 'apt install lazarus' (no download, no cache restore, no
\* artifact path), and a win32 run replaces the version by "4.2" and downloads
\* and installs exactly that version.
C2_DistAlias ==
    requested = "dist" =>
        /\ Platform = "linux" =>
              /\ Len(log) <= 2
              /\ \A i \in DOMAIN log :
                    /\ log[i].op = "exec"
                    /\ log[i].arg = (IF i = 1 THEN AptUpdate ELSE AptInstallDist)
              /\ downloadPath = ""
              /\ LazarusVersion = "dist"
              /\ Succeeded => Len(log) = 2
        /\ Platform = "win32" =>
              /\ pc \notin {"install", "installLazarus"} =>
                    /\ LazarusVersion = "4.2"
                    /\ cacheKey = "4.2-" \o Arch \o "-win32"
              /\ \A i \in Downloads :
                    /\ startsWith(log[i].arg, "https://sourceforge.net/")
                    /\ endsWith(log[i].arg,
                                "/Lazarus%204.2/lazarus-4.2-fpc-3.2.2-"
                                  \o (IF Arch = "x64" THEN "win64" ELSE "win32")
                                  \o ".exe")
              /\ Succeeded =>
                    /\ Cardinality(Downloads) = 1
                    /\ \E i \in Execs :
                          /\ log[i].ok
                          /\ endsWith(log[i].arg,
                                      "lazarus-4.2.exe /VERYSILENT /SP- /DIR="
                                        \o lazarusDir)

C2_Witness ==
    /\ requested = "dist"
    /\ Platform = "linux"
    /\ Succeeded
    /\ Len(log) = 2

\* C3: on darwin a requested version starting with "1." (such as "1.5") is
\* rejected with the unsupported-configuration error before anything is
\* attempted: no cache restore, no download, no shell command.
C3_MacUnsupported ==
    (Platform = "darwin" /\ startsWith(requested, "1.")) =>
        /\ log = <<>>
        /\ pc \in {"install", "installLazarus", "thrown", "exit"}
        /\ pc \in {"thrown", "exit"} => error = MacosTooOldError
        /\ pc = "exit" => failed = MacosTooOldError

C3_Witness ==
    /\ Platform = "darwin"
    /\ requested = "1.5"
    /\ pc = "exit"
    /\ failed = MacosTooOldError
    /\ log = <<>>

\* The rule table of C4, in priority order: a rule matches a version that
\* equals one of its `exact` strings or starts with one of its `prefix` strings.
FPCRules ==
    << [exact |-> {},        prefix |-> {"2.0.1"},       fpc |-> "3.2.0"],
       [exact |-> {},        prefix |-> {"2.0.", "1.8"}, fpc |-> "3.0.4"],
       [exact |-> {"1.6.4"}, prefix |-> {},              fpc |-> "3.0.2"],
       [exact |-> {},        prefix |-> {"1.6"},         fpc |-> "3.0.0"],
       [exact |-> {"1.2.0"}, prefix |-> {"1.0"},         fpc |-> "2.6.2"],
       [exact |-> {},        prefix |-> {"1.4", "1.2"},  fpc |-> "2.6.4"] >>

RuleMatches(rule, ver) ==
    \/ ver \in rule.exact
    \/ \E pre \in rule.prefix : startsWith(ver, pre)

MatchingRules(ver) == {i \in DOMAIN FPCRules : RuleMatches(FPCRules[i], ver)}

\* First matching rule wins; "3.2.2" when no rule matches.
TableFPCVersion(ver) ==
    IF MatchingRules(ver) = {} THEN "3.2.2"
    ELSE FPCRules[CHOOSE i \in MatchingRules(ver) :
                     \A j \in MatchingRules(ver) : i <= j].fpc

\* C4: findFPCVersion gives, for the requested and the resolved version, the
\* result of the first matching rule of the table, and "3.2.2" for every
\* string no rule matches; the artifact URLs a run downloads carry that
\* compiler version.
C4_FindFPCVersion ==
    /\ findFPCVersion(requested) = TableFPCVersion(requested)
    /\ findFPCVersion(LazarusVersion) = TableFPCVersion(LazarusVersion)
    /\ Platform = "linux" =>
          \A i \in Downloads :
             \E name \in RequiredArtifacts :
                /\ log[i].arg = getPackageURL(name)
                /\ name = "fpcsrc" =>
                      endsWith(log[i].arg,
                               "/fpc-src_" \o TableFPCVersion(LazarusVersion)
                                 \o "-" \o fpcverSuffix(LazarusVersion, Platform)
                                 \o "_amd64.deb")

C4_Witness ==
    /\ requested = "1.6.4"
    /\ Platform = "linux"
    /\ \E i \in Downloads :
          /\ log[i].ok
          /\ endsWith(log[i].arg, "/Lazarus%201.6.4/fpc-src_3.0.2-170225_amd64.deb")

\* Steps that can fail: a download or a shell command.
FailedCalls == {i \in Downloads \cup Execs : ~log[i].ok}

C5_State ==
    /\ \A i \in FailedCalls :
          /\ i = Len(log)
          /\ pc \in {"thrown", "exit"}
          /\ error # ""
    /\ error # "" =>
          /\ pc \in {"thrown", "exit"}
          /\ addedPath = <<>>
          /\ FPCDIR = ""
    /\ pc = "exit" => failed = error
    /\ pc # "exit" => failed = ""

C5_Step ==
    error # "" =>
        /\ log' = log
        /\ addedPath' = addedPath
        /\ FPCDIR' = FPCDIR
        /\ error' = error
        /\ pc' = "exit"
        /\ failed' = error

\* C5: a failed step (download, shell command, post-install check) is the last
\* thing the run does: nothing is issued after it, it is not issued again,
\* PATH and FPCDIR stay untouched, and run() ends with setFailed carrying the
\* error's message.
C5_FailureIsFatal == [](C5_State) /\ [][C5_Step]_vars

C5_Witness ==
    /\ Platform = "linux"
    /\ pc = "exit"
    /\ Len(log) >= 5
    /\ log[Len(log)].op = "exec"
    /\ ~log[Len(log)].ok
    /\ failed = ExecError(log[Len(log)].arg)

\* Every download is preceded, in the same run, by a cache-restore attempt for
\* the key version-arch-platform.
RestoreBeforeDownloads ==
    \A i \in Downloads :
       \E j \in Restores :
          /\ j < i
          /\ log[j].arg = LazarusVersion \o "-" \o Arch \o "-" \o Platform

\* C6 as stated: on every platform no download is issued without a preceding
\* cache-restore attempt.
C6_Original == RestoreBeforeDownloads

\* C6 amended: on linux and darwin every download is preceded by a
\* cache-restore attempt for the key version-arch-platform; on win32 no cache
\* restore is ever attempted.
C6_RestoreBeforeDownload ==
    /\ Platform # "win32" => RestoreBeforeDownloads
    /\ Platform = "win32" => Restores = {}

C6_Witness ==
    /\ Platform = "darwin"
    /\ WithCache
    /\ Downloads # {}
    /\ log[1].op = "restore"
    /\ ~log[1].ok

---------------------------------------------------------------------------
(* Order of the steps of a platform branch.                                *)

\* The commands that install artifact `name` on this platform.
InstallCommands(name) ==
    IF Platform = "linux"
    THEN {"sudo apt install -y " \o join(getTempDirectory, Stem(name) \o ".deb")}
    ELSE {"sudo installer -package "
              \o join(getTempDirectory, Stem(name) \o ".pkg") \o " -target /",
          "sudo installer -package /Volumes/" \o Stem(name) \o "/"
              \o Stem(name) \o ".pkg -target /"}

InstallsOf(name) == {i \in Execs : log[i].arg \in InstallCommands(name)}

\* Everything the run issued for artifact `name`.
StepsOf(name) ==
    DownloadsOf(name) \cup InstallsOf(name)
       \cup ExecsOf("sudo hdiutil attach "
                      \o join(getTempDirectory, Stem(name) \o ".dmg"))

Obtained(name, i) ==
    \/ \E j \in Restores : j < i /\ log[j].ok
    \/ \E j \in DownloadsOf(name) : j < i /\ log[j].ok

Installed(name, i) == \E j \in InstallsOf(name) : j < i /\ log[j].ok

FixUps == ExecsOf(RemoveLink) \cup ExecsOf(AddLink)

\* C7: on linux 'apt update' comes before every download and every other
\* command; on linux and darwin the artifacts are handled in the order
\* compiler-source, compiler, IDE, each installed only after it was obtained
\* and after its predecessor's install command succeeded; the post-install
\* fix-up comes only after the last install command succeeded.
C7_StraightLine ==
    /\ Platform = "linux" =>
          \A i \in Downloads \cup Execs :
             IF i = Min1(Downloads \cup Execs)
             THEN log[i].arg = AptUpdate
             ELSE log[Min1(Downloads \cup Execs)].ok
    /\ (Platform \in {"linux", "darwin"} /\ RanDownloadSequence) =>
          /\ \A i \in StepsOf("fpcsrc"), j \in StepsOf("fpc"), k \in StepsOf("laz") :
                i < j /\ j < k
          /\ \A i \in StepsOf("fpc") : Installed("fpcsrc", i)
          /\ \A i \in StepsOf("laz") : Installed("fpc", i)
          /\ \A name \in {"fpcsrc", "fpc", "laz"} :
                \A i \in InstallsOf(name) : Obtained(name, i)
          /\ \A i \in FixUps : Installed("laz", i)
          /\ files # {"unread"} => Installed("laz", Len(log) + 1)
    /\ addedPath # <<>> =>
          /\ Platform = "win32"
          /\ \E i \in Execs :
                /\ log[i].ok
                /\ log[i].arg = downloadPath \o " /VERYSILENT /SP- /DIR=" \o lazarusDir
                /\ i = Len(log)

C7_Witness ==
    /\ Platform = "darwin"
    /\ requested = "2.0.8"
    /\ Succeeded
    /\ Cardinality(Downloads) = 3
    /\ ExecsOf(AddLink) # {}

---------------------------------------------------------------------------
(* Unsupported platforms, the lazbuild check, the darwin version test.     *)

UnsupportedHost ==
    \/ Platform \notin {"linux", "win32", "darwin"}
    \/ Platform = "darwin" /\ requested = "dist"

\* s contains t as a substring.
Contains(s, t) ==
    \E i \in 1..(Len(s) + 1) :
       i + Len(t) - 1 <= Len(s) /\ SubSeq(s, i, i + Len(t) - 1) = t

\* C8: on an unsupported host (a platform other than linux, win32 and darwin,
\* or darwin with "dist") the run issues no download and no shell command,
\* never returns normally, and ends with a failure message naming the platform.
C8_UnsupportedPlatform ==
    UnsupportedHost =>
        /\ Downloads = {}
        /\ Execs = {}
        /\ addedPath = <<>>
        /\ pc # "returned"
        /\ pc \in {"install", "installLazarus", "_downloadLazarus", "thrown", "exit"}
        /\ pc = "exit" =>
              /\ failed # ""
              /\ Contains(failed, "Platform not")
              /\ endsWith(failed, ": " \o Platform)

C8_Witness ==
    /\ Platform = "freebsd"
    /\ requested = "stable"
    /\ pc = "exit"
    /\ failed = "_downloadLazarus - Platform not implemented: freebsd"

\* The lazbuild check ran: every run reads the two paths only there.
LazbuildChecked == files # {"unread"}

\* C9: on darwin, once the three packages are installed: with
\* /Library/Lazarus/lazbuild present no link command runs; else with
\* /Applications/Lazarus/lazbuild present the link is removed and then
\* re-created, in that order; with neither the run fails with 'Could not find
\* lazbuild'. No darwin run succeeds with lazbuild missing from both places.
C9_LazbuildLink ==
    /\ LazbuildChecked =>
          /\ Platform = "darwin"
          /\ \A name \in {"fpcsrc", "fpc", "laz"} : Installed(name, Len(log) + 1)
          /\ lazLibPath \in files =>
                /\ FixUps = {}
                /\ error = ""
                /\ pc \in {"returned", "exit"}
          /\ (lazLibPath \notin files /\ lazAppPath \in files) =>
                /\ Cardinality(ExecsOf(RemoveLink)) <= 1
                /\ Cardinality(ExecsOf(AddLink)) <= 1
                /\ \A i \in ExecsOf(AddLink) :
                      /\ i = Len(log)
                      /\ log[i - 1].arg = RemoveLink
                      /\ log[i - 1].ok
                /\ \A i \in ExecsOf(RemoveLink) : Installed("laz", i)
                /\ pc = "darwinRmLink" => FixUps = {}
                /\ Succeeded =>
                      /\ log[Len(log)] = [op |-> "exec", arg |-> AddLink, ok |-> TRUE]
                      /\ log[Len(log) - 1] =
                            [op |-> "exec", arg |-> RemoveLink, ok |-> TRUE]
          /\ (lazLibPath \notin files /\ lazAppPath \notin files) =>
                /\ FixUps = {}
                /\ pc \in {"thrown", "exit"}
                /\ error = "Could not find lazbuild in /Library/Lazarus/lazbuild or /Applications/Lazarus/lazbuild"
                /\ pc = "exit" => failed = error
    /\ (Platform = "darwin" /\ Succeeded) =>
          /\ LazbuildChecked
          /\ files \cap {lazLibPath, lazAppPath} # {}

C9_Witness ==
    /\ Platform = "darwin"
    /\ files = {}
    /\ pc = "exit"
    /\ Contains(failed, "Could not find lazbuild")
    /\ Cardinality(Execs) >= 3

---------------------------------------------------------------------------
(* Version numbers as numbers.                                             *)

Digits == {"0", "1", "2", "3", "4", "5", "6", "7", "8", "9"}

DigitValue(c) ==
    CASE c = "0" -> 0 [] c = "1" -> 1 [] c = "2" -> 2 [] c = "3" -> 3
      [] c = "4" -> 4 [] c = "5" -> 5 [] c = "6" -> 6 [] c = "7" -> 7
      [] c = "8" -> 8 [] c = "9" -> 9

\* Position of the first "." of s at or after i, or Len(s) + 1 when none.
RECURSIVE FirstDot(_, _)
FirstDot(s, i) ==
    IF i > Len(s) THEN Len(s) + 1
    ELSE IF CharAt(s, i) = "." THEN i
    ELSE FirstDot(s, i + 1)

\* The dot-separated components of s.
RECURSIVE Components(_)
Components(s) ==
    LET d == FirstDot(s, 1)
    IN  IF d > Len(s) THEN <<s>>
        ELSE <<SubSeq(s, 1, d - 1)>> \o Components(SubSeq(s, d + 1, Len(s)))

IsNumber(s) == Len(s) > 0 /\ \A i \in 1..Len(s) : CharAt(s, i) \in Digits

\* A dotted version number: "2.0.8", "4.2", "1.0.14".
IsVersionNumber(s) ==
    \A i \in DOMAIN Components(s) : IsNumber(Components(s)[i])

RECURSIVE NumberValue(_)
NumberValue(s) ==
    IF Len(s) = 0 THEN 0
    ELSE 10 * NumberValue(SubSeq(s, 1, Len(s) - 1)) + DigitValue(CharAt(s, Len(s)))

\* The i-th component of version number s as a number, 0 when absent.
Component(s, i) ==
    IF i \in DOMAIN Components(s) THEN NumberValue(Components(s)[i]) ELSE 0

\* Version number s is below a.b.c.
Below(s, a, b, c) ==
    \/ Component(s, 1) < a
    \/ Component(s, 1) = a /\ Component(s, 2) < b
    \/ Component(s, 1) = a /\ Component(s, 2) = b /\ Component(s, 3) < c

\* installLazarus threw the darwin version error.
RejectedOnMacos == error = MacosTooOldError

\* C10 as stated: on darwin a requested version number is rejected with
\* "GitHub runners do not support Lazarus below 2.0.8 on macos" if and only if
\* it is below 2.0.8; every version at or above 2.0.8 (2.0.10 and 2.0.12
\* included) proceeds to the download/install sequence.
C10_RejectsIffBelow208 ==
    (/\ Platform = "darwin"
     /\ IsVersionNumber(requested)
     /\ pc \notin {"install", "installLazarus"}) =>
        /\ RejectedOnMacos <=> Below(requested, 2, 0, 8)
        /\ ~Below(requested, 2, 0, 8) => RanDownloadSequence

---------------------------------------------------------------------------
(* PATH and FPCDIR on win32.                                               *)

\* The installer command of the win32 branch resolved.
WinInstallerSucceeded ==
    \E i \in Execs :
       /\ log[i].ok
       /\ log[i].arg = downloadPath \o " /VERYSILENT /SP- /DIR=" \o lazarusDir

\* <lazarusDir>\fpc\<compiler version> for the compiler version of `ver`.
ExpectedFpcHome(ver) == join(join(lazarusDir, "fpc"), findFPCVersion(ver))

ExpectedFpcBin(ver) ==
    join(join(ExpectedFpcHome(ver), "bin"),
         "x86_64-" \o (IF Arch = "x64" THEN "win64" ELSE "win32"))

\* C11 as stated: on win32, for every requested version (after alias
\* resolution), a successful install has put the fpc bin directory of
\* findFPCVersion(version) on PATH and set FPCDIR to the fpc directory of that
\* compiler version; PATH and FPCDIR are modified only on win32 and only after
\* the installer command succeeded.
C11_WinFpcVersion ==
    /\ (Platform = "win32" /\ Succeeded) =>
          /\ fpc_version = findFPCVersion(LazarusVersion)
          /\ addedPath = <<lazarusDir, ExpectedFpcBin(LazarusVersion)>>
          /\ FPCDIR = ExpectedFpcHome(LazarusVersion)
    /\ (addedPath # <<>> \/ FPCDIR # "") =>
          /\ Platform = "win32"
          /\ WinInstallerSucceeded

=============================================================================
